---- MODULE Spec2Model ----
(***************************************************************************)
(* Model of lightkbdd (src/main.rs): a daemon that dims the keyboard       *)
(* backlight after an idle period and restores it on input activity.       *)
(*                                                                         *)
(* Time is counted in milliseconds.  An Instant is opaque: the program     *)
(* only ever compares two Instants or takes their difference, so the       *)
(* model measures every Instant from the loop's latest `now` (line 314),   *)
(* which is therefore 0, and instants of the past are negative.            *)
(* f32 values are modelled bit-exactly for the non-negative normal  *)
(* range: a value is a pair <<m, e>> standing for m * 2^e with             *)
(* 2^23 <= m < 2^24 (or <<0, 0>> for 0.0), and every operation rounds to   *)
(* nearest, ties to even, as IEEE-754 binary32 does.  Subnormals,          *)
(* infinities and NaN cannot arise from the values the program handles     *)
(* (brightness in [0,1], durations of at least 1 ms).                      *)
(***************************************************************************)
EXTENDS Integers, Sequences, FiniteSets, TLC

(***************************************************************************)
(* f32 arithmetic                                                          *)
(***************************************************************************)

\* f32::MANTISSA_DIGITS: the significand width of the f32 type the program uses.
MantBits == 24

\* Half the significand width: the limb size used to multiply two significands
\* inside 32-bit integer arithmetic.
LimbBits == MantBits \div 2

MantLo == 2 ^ (MantBits - 1)

MantHi == 2 ^ MantBits

Limb == 2 ^ LimbBits

F32Zero == <<0, 0>>

F32One == <<MantLo, 1 - MantBits>>

\* Let1(x, F) is F(v) for the value v of x, Let2 and Let3 likewise: each argument
\* is evaluated once, however often F uses it.
Let1(x, F(_)) == CHOOSE r \in {F(v) : v \in {x}} : TRUE

Let2(x, y, F(_, _)) == CHOOSE r \in {F(v, w) : v \in {x}, w \in {y}} : TRUE

Let3(x, y, z, F(_, _, _)) ==
    CHOOSE r \in {F(v, w, u) : v \in {x}, w \in {y}, u \in {z}} : TRUE

\* Number of binary digits of n, 0 <= n < 2^4.
BitLen4(n) ==
    IF n < 4 THEN (IF n < 2 THEN n ELSE 2) ELSE (IF n < 8 THEN 3 ELSE 4)

\* Number of binary digits of n, 0 <= n < 2^8.
BitLen8(n) == IF n < 16 THEN BitLen4(n) ELSE 4 + BitLen4(n \div 16)

\* Number of binary digits of n, 0 <= n < 2^16.
BitLen16(n) == IF n < 256 THEN BitLen8(n) ELSE 8 + BitLen8(n \div 256)

\* Number of binary digits of n, 0 <= n < 2^31.
BitLen(n) == IF n < 65536 THEN BitLen16(n) ELSE 16 + BitLen16(n \div 65536)

\* q * 2^e for MantLo <= q <= MantHi: the significand renormalised when the
\* rounding carried out of it.
F32Carry(q, e) == IF q = MantHi THEN <<MantLo, e + 1>> ELSE <<q, e>>

\* n * 2^e rounded to MantBits digits, for n of len > MantBits digits: s digits
\* are cut off, and ties go to the even significand.
F32Cut(n, sticky, e, s) ==
    Let3(n \div 2 ^ s, n % 2 ^ s, 2 ^ (s - 1), LAMBDA q, r, half :
         F32Carry(IF \/ r > half
                     \/ r = half /\ sticky
                     \/ r = half /\ ~sticky /\ q % 2 = 1
                  THEN q + 1 ELSE q,
                  e + s))

\* The f32 nearest to (n + f) * 2^e, where 0 <= n < 2^31 is an integer and
\* sticky says that a non-zero fraction 0 < f < 1 was cut off below n.
F32Round(n0, sticky0, e0) ==
    Let3(n0, sticky0, e0, LAMBDA n, sticky, e :
         IF n = 0 THEN F32Zero
         ELSE Let1(BitLen(n), LAMBDA len :
                   IF len <= MantBits
                   THEN <<n * 2 ^ (MantBits - len), e - (MantBits - len)>>
                   ELSE F32Cut(n, sticky, e, len - MantBits)))

\* `n as f32` for an unsigned integer n.
F32FromInt(n) == F32Round(n, FALSE, 0)

F32IsZero(a) == a[1] = 0

F32Lt(a0, b0) ==
    Let2(a0, b0, LAMBDA a, b :
         IF F32IsZero(b) THEN FALSE
         ELSE IF F32IsZero(a) THEN TRUE
         ELSE a[2] < b[2] \/ (a[2] = b[2] /\ a[1] < b[1]))

F32Le(a0, b0) == Let2(a0, b0, LAMBDA a, b : a = b \/ F32Lt(a, b))

\* hi + lo for hi, lo > 0 with the exponent of hi at least that of lo.
F32AddOrdered(hi, lo) ==
    Let1(hi[2] - lo[2], LAMBDA d :
         IF d <= 6
         THEN F32Round(hi[1] * 2 ^ d + lo[1], FALSE, lo[2])
         ELSE IF d > MantBits + 2
         THEN hi
         ELSE F32Round(hi[1] * 64 + (lo[1] \div 2 ^ (d - 6)),
                       lo[1] % 2 ^ (d - 6) # 0, hi[2] - 6))

\* a + b for a, b >= 0.
F32Add(a0, b0) ==
    Let2(a0, b0, LAMBDA a, b :
         IF F32IsZero(a) THEN b
         ELSE IF F32IsZero(b) THEN a
         ELSE IF a[2] >= b[2] THEN F32AddOrdered(a, b)
         ELSE F32AddOrdered(b, a))

\* a - b for a >= b > 0, the exponents d apart.
F32SubOrdered(a, b, d) ==
    IF d <= 6
    THEN F32Round(a[1] * 2 ^ d - b[1], FALSE, b[2])
    ELSE IF d > MantBits + 2
    THEN a
    ELSE IF b[1] % 2 ^ (d - 6) = 0
    THEN F32Round(a[1] * 64 - (b[1] \div 2 ^ (d - 6)), FALSE, a[2] - 6)
    ELSE F32Round(a[1] * 64 - (b[1] \div 2 ^ (d - 6)) - 1, TRUE, a[2] - 6)

\* a - b for a >= b >= 0.
F32Sub(a0, b0) ==
    Let2(a0, b0, LAMBDA a, b :
         IF F32IsZero(b) THEN a ELSE F32SubOrdered(a, b, a[2] - b[2]))

\* |a - b|
F32AbsDiff(a0, b0) ==
    Let2(a0, b0, LAMBDA a, b : IF F32Lt(a, b) THEN F32Sub(b, a) ELSE F32Sub(a, b))

\* The product of two significands (a1 * Limb + a0) * (b1 * Limb + b0) as the
\* pair <<H, L>> with the product H * MantHi + L and L < MantHi.
F32MulLimbs(a1, a0, b1, b0) ==
    Let1(a1 * b0 + a0 * b1, LAMBDA mid :
         Let1((mid % Limb) * Limb + a0 * b0, LAMBDA low :
              <<a1 * b1 + (mid \div Limb) + (low \div MantHi), low % MantHi>>))

\* a * b for a, b >= 0: the product of the significands is formed from limbs
\* of half their width, then rounded once.
F32Mul(a0, b0) ==
    Let2(a0, b0, LAMBDA a, b :
         IF F32IsZero(a) \/ F32IsZero(b) THEN F32Zero
         ELSE Let1(F32MulLimbs(a[1] \div Limb, a[1] % Limb, b[1] \div Limb, b[1] % Limb),
                   LAMBDA p :
                   F32Round(p[1] * 4 + (p[2] \div 2 ^ (MantBits - 2)),
                            p[2] % 2 ^ (MantBits - 2) # 0,
                            a[2] + b[2] + MantBits - 2)))

\* One step of the long division by d: from <<quotient, remainder>> to the pair
\* with k more quotient digits.
F32DivStep(qr, d, k) ==
    <<qr[1] * 2 ^ k + (qr[2] * 2 ^ k) \div d, (qr[2] * 2 ^ k) % d>>

\* a / b for a >= 0, b > 0: 26 quotient digits by long division, then rounded
\* once.
F32Div(a0, b0) ==
    Let2(a0, b0, LAMBDA a, b :
         IF F32IsZero(a) THEN F32Zero
         ELSE Let1(<<a[1] \div b[1], a[1] % b[1]>>, LAMBDA s0 :
              Let1(F32DivStep(s0, b[1], 6), LAMBDA s1 :
              Let1(F32DivStep(s1, b[1], 6), LAMBDA s2 :
              Let1(F32DivStep(s2, b[1], 6), LAMBDA s3 :
              Let1(F32DivStep(s3, b[1], 7), LAMBDA s4 :
                   F32Round(s4[1], s4[2] # 0, a[2] - b[2] - 25)))))))

\* f32::round (half away from zero) followed by `as u32`, for a >= 0 below 2^31.
F32RoundToInt(a0) ==
    Let1(a0, LAMBDA a :
         IF F32IsZero(a) THEN 0
         ELSE IF a[2] >= 0 THEN a[1] * 2 ^ a[2]
         ELSE IF a[2] < -(MantBits + 1) THEN 0
         ELSE (a[1] + 2 ^ (-a[2] - 1)) \div 2 ^ (-a[2]))

(***************************************************************************)
(* Option<T>: None is the empty tuple, Some(x) the one-element tuple.      *)
(***************************************************************************)

None == <<>>

Some(x) == <<x>>

is_some(o) == o # None

unwrap_or(o, d) == IF o = None THEN d ELSE o[1]

(***************************************************************************)
(* Program constants                                                       *)
(***************************************************************************)

\* const MIN_FADE_TICK_MS: u64 = 16
MIN_FADE_TICK_MS == 16

\* u16::MAX, the largest timeout ms_to_timeout passes on
U16_MAX == 65535

\* Duration::from_secs(60), in milliseconds: the sleep while dimmed and at rest
DIMMED_WAKE_MS == 60000

\* The literal 0.0001 of set_target
Epsilon == F32Div(F32FromInt(1), F32FromInt(10000))

(***************************************************************************)
(* Pure functions                                                          *)
(***************************************************************************)

clamp01(x0) == Let1(x0, LAMBDA x : IF F32Lt(F32One, x) THEN F32One ELSE x)

\* a + (b - a) * t for a, b, t >= 0.  When b < a the code's (b - a) * t is the
\* negation of (a - b) * t (rounding is symmetric), so the sum is a - (a - b) * t.
lerp(a0, b0, t0) ==
    Let3(a0, b0, t0, LAMBDA a, b, t :
         IF F32Le(a, b)
         THEN F32Add(a, F32Mul(F32Sub(b, a), t))
         ELSE F32Sub(a, F32Mul(F32Sub(a, b), t)))

\* Duration::as_secs_f32 of a Duration of ms milliseconds:
\* (secs as f32) + (nanos as f32) / (NANOS_PER_SEC as f32)
as_secs_f32(ms) ==
    F32Add(F32FromInt(ms \div 1000),
           F32Div(F32FromInt((ms % 1000) * 1000000), F32FromInt(1000000000)))

\* now.saturating_duration_since(earlier)
saturating_duration_since(t, earlier) == IF t >= earlier THEN t - earlier ELSE 0

\* Duration::from_millis(ms.max(1)) of the two fade options
fade_duration(ms) == IF ms >= 1 THEN ms ELSE 1

raw_to_f32(max, raw) ==
    IF max = 0 THEN F32Zero
    ELSE clamp01(F32Div(F32FromInt(raw), F32FromInt(max)))

f32_to_raw(max, v) == F32RoundToInt(F32Mul(clamp01(v), F32FromInt(max)))

\* Fade::value_at
value_at(f0, t0) ==
    Let2(f0, t0, LAMBDA f, t :
         lerp(f.start, f.target,
              clamp01(F32Div(as_secs_f32(saturating_duration_since(t, f.start_at)),
                             as_secs_f32(f.duration)))))

\* A variant of done that never reports the fade finished
done_never(f, t) == FALSE

\* Fade::done
done(f, t) == saturating_duration_since(t, f.start_at) >= f.duration

\* Fader::new
Fader_new(current) == [current |-> clamp01(current), fade |-> None]

\* Fader::value: the fader after the call; the value returned is its current.
value(fd0, t0) ==
    Let2(fd0, t0, LAMBDA fd, t :
         IF is_some(fd.fade)
         THEN IF done(fd.fade[1], t)
              THEN [current |-> fd.fade[1].target, fade |-> None]
              ELSE [current |-> clamp01(value_at(fd.fade[1], t)), fade |-> fd.fade]
         ELSE fd)

\* The test `(t - cur).abs() < 0.0001` of set_target
within_epsilon(t, cur) == F32Lt(F32AbsDiff(t, cur), Epsilon)

\* The duration set_target picks: fade_in when brightening, fade_out otherwise
pick_duration(t, cur, fade_in_dur, fade_out_dur) ==
    IF F32Lt(cur, t) THEN fade_in_dur ELSE fade_out_dur

\* A variant of set_target that starts from the value last computed instead of
\* the value resolved at now
set_target_from_last_value(fd, now0, target, fade_in_dur, fade_out_dur) ==
    Let3(clamp01(target), fd.current, now0, LAMBDA t, cur, at :
         IF within_epsilon(t, cur)
         THEN [current |-> t, fade |-> None]
         ELSE [current |-> cur,
               fade |-> Some([start    |-> cur,
                              target   |-> t,
                              start_at |-> at,
                              duration |-> pick_duration(t, cur, fade_in_dur,
                                                         fade_out_dur)])])

\* A variant of set_target without the test against epsilon
set_target_always_fades(fd, now0, target, fade_in_dur, fade_out_dur) ==
    Let3(clamp01(target), value(fd, now0).current, now0, LAMBDA t, cur, at :
         [current |-> cur,
          fade |-> Some([start    |-> cur,
                         target   |-> t,
                         start_at |-> at,
                         duration |-> pick_duration(t, cur, fade_in_dur,
                                                    fade_out_dur)])])

\* Fader::set_target: the fader after the call.
set_target(fd, now0, target, fade_in_dur, fade_out_dur) ==
    Let3(clamp01(target), value(fd, now0).current, now0, LAMBDA t, cur, at :
         IF within_epsilon(t, cur)
         THEN [current |-> t, fade |-> None]
         ELSE [current |-> cur,
               fade |-> Some([start    |-> cur,
                              target   |-> t,
                              start_at |-> at,
                              duration |-> pick_duration(t, cur, fade_in_dur,
                                                         fade_out_dur)])])

\* Fader::is_fading
is_fading(fd) == is_some(fd.fade)

\* A variant of ms_to_timeout that truncates to 16 bits instead of capping
ms_to_timeout_wrapping(ms) == IF ms <= 0 THEN 0 ELSE ms % (U16_MAX + 1)

\* ms_to_timeout: the PollTimeout, in milliseconds
ms_to_timeout(ms) ==
    IF ms <= 0 THEN 0
    ELSE IF ms < U16_MAX THEN ms ELSE U16_MAX

(***************************************************************************)
(* Bounds of the model                                                     *)
(***************************************************************************)

\* Number of /dev/input/event* devices opened and registered at startup
NumSources == 2

\* Timed-out wakes are followed until Horizon ms after the idle deadline
Horizon == 60100

\* Dimmed -> Active transitions followed in one run
MaxRestores == 2

\* How late (ms) a timed-out wait may return
Late == 1

\* An offset (ms) into the wait at which input may arrive
Early == 7

Sources == 0 .. (NumSources - 1)

\* The runs the model follows: --idle, --fade-in, --fade-out (milliseconds),
\* max_brightness, the brightness read at startup, and the number of input
\* devices opened.
\*  - an idle time shorter than the fade-in, so that a dim can begin while a
\*    fade-in is still in progress;
\*  - an idle time above what a PollTimeout holds, so that the wait is clamped;
\*  - several input devices, with fades of one step.
Configs ==
    { [idle_ms |-> 5, fade_in_ms |-> 10, fade_out_ms |-> 2,
       max_raw |-> 255, initial_raw |-> 128, files |-> 1],
      [idle_ms |-> 70000, fade_in_ms |-> 10, fade_out_ms |-> 2,
       max_raw |-> 255, initial_raw |-> 128, files |-> 1],
      [idle_ms |-> 20, fade_in_ms |-> 0, fade_out_ms |-> 1,
       max_raw |-> 255, initial_raw |-> 128, files |-> NumSources] }

(***************************************************************************)
(* State                                                                   *)
(***************************************************************************)

VARIABLES
    options,          \* Options: idle_ms, fade_in_ms, fade_out_ms
    max_raw,          \* Backlight.max_raw
    initial_raw,      \* main: initial_raw
    last_raw_written, \* Backlight.last_raw_written
    brightness,       \* content of the brightness file
    fader,            \* Fader: current, fade
    registered,       \* indices of the files registered with the epoll instance
    last_activity,    \* main: last_activity
    saved_raw,        \* main: saved_raw
    is_dimmed,        \* main: is_dimmed
    timeout,          \* the PollTimeout given to the latest ep.wait
    n,                \* main: n, the number of events the latest ep.wait returned
    ev,               \* what each source reported in the latest wake
    write_result,     \* outcome of the latest write_raw call
    pc,               \* "loop" while main runs its loop, "exit" once it returned
    restores,         \* Dimmed -> Active transitions so far
    calls             \* the set_target calls made on a fader exercised on its own

vars == <<options, max_raw, initial_raw, last_raw_written, brightness, fader,
          registered, last_activity, saved_raw, is_dimmed, timeout, n, ev,
          write_result, pc, restores, calls>>

\* main: now, the latest Instant::now(), the origin every Instant is measured from
now == 0

fade_in == fade_duration(options.fade_in_ms)

fade_out == fade_duration(options.fade_out_ms)

\* State of main when it enters the loop (lines 237-291) in run c.
InitOf(c) ==
    /\ options = [idle_ms |-> c.idle_ms, fade_in_ms |-> c.fade_in_ms,
                  fade_out_ms |-> c.fade_out_ms]
    /\ max_raw = c.max_raw
    /\ initial_raw = c.initial_raw
    /\ last_raw_written = None
    /\ brightness = c.initial_raw
    /\ fader = Fader_new(raw_to_f32(c.max_raw, c.initial_raw))
    /\ registered = 0 .. (c.files - 1)
    /\ last_activity = now
    /\ saved_raw = None
    /\ is_dimmed = FALSE
    /\ timeout = 0
    /\ n = 0
    /\ ev = [i \in Sources |-> "none"]
    /\ write_result = "none"
    /\ pc = "loop"
    /\ restores = 0
    /\ calls = <<>>

Init == \E c \in Configs : InitOf(c)

(***************************************************************************)
(* One loop iteration                                                      *)
(***************************************************************************)

idle_deadline(la, idle_ms) == la + idle_ms

\* A variant of next_wake that takes no account of a fade in flight
next_wake_ignoring_fade(fd, dimmed, la, idle_ms, t) ==
    IF dimmed THEN t + DIMMED_WAKE_MS ELSE idle_deadline(la, idle_ms)

\* next_wake of lines 297-303
next_wake(fd, dimmed, la, idle_ms, t) ==
    IF is_fading(fd)
    THEN IF idle_deadline(la, idle_ms) < t + MIN_FADE_TICK_MS
         THEN idle_deadline(la, idle_ms)
         ELSE t + MIN_FADE_TICK_MS
    ELSE IF dimmed THEN t + DIMMED_WAKE_MS
    ELSE idle_deadline(la, idle_ms)

\* timeout_ms of lines 305-308: checked_duration_since, or 0
timeout_ms(wake, t) == IF wake >= t THEN wake - t ELSE 0

\* The timeout the iteration starting in the current state gives to ep.wait
wait_timeout ==
    ms_to_timeout(timeout_ms(next_wake(fader, is_dimmed, last_activity,
                                       options.idle_ms, now), now))

\* Events a wake can deliver: each registered source reports nothing, readable
\* data that drains cleanly ("data"), readable data whose read fails hard
\* ("readerr"), or EPOLLERR/EPOLLHUP ("hup").  A source that is not registered
\* reports nothing.
EventChoices ==
    {e \in [Sources -> {"none", "data", "readerr", "hup"}] :
        \A i \in Sources : i \notin registered => e[i] = "none"}

NoEvents == [i \in Sources |-> "none"]

ready_count(e) == Cardinality({i \in Sources : e[i] # "none"})

\* Variants of the conditions below, each differing from the code in one respect;
\* the properties are checked to tell the code from them.
deregisters_hangup_only(kind) == kind = "hup"

should_dim_again(count, dimmed, t, la, idle_ms) ==
    count = 0 /\ t >= idle_deadline(la, idle_ms)

should_dim_before_deadline(count, dimmed, t, la, idle_ms) ==
    count = 0 /\ ~dimmed

should_restore_always(count, dimmed) == count # 0

restore_raw_initial(saved, initial) == initial

after_write_ignoring_error(result) == "loop"

\* Lines 324-326 and 334-337: ep.delete of a source
deregisters(kind) == kind \in {"hup", "readerr"}

\* Line 316: the wake counts as activity
is_activity(count) == count # 0

\* Line 357: the condition of the Active -> Dimmed transition
should_dim(count, dimmed, t, la, idle_ms) ==
    count = 0 /\ ~dimmed /\ t >= idle_deadline(la, idle_ms)

\* Line 344: the condition of the Dimmed -> Active transition
should_restore(count, dimmed) == is_activity(count) /\ dimmed

\* A variant of capture without the fallback to the initial raw value
capture_unless_read_fails(saved, read, initial) ==
    IF saved = None THEN read ELSE saved

\* Lines 358-360: saved_raw after the capture; read is the outcome of read_raw
capture(saved, read, initial) ==
    IF saved = None THEN Some(unwrap_or(read, initial)) ELSE saved

\* Line 348: the raw value restored
restore_raw(saved, initial) == unwrap_or(saved, initial)

\* A variant of write_raw that writes whatever was written last
write_raw_always(last, raw, io_ok) == IF io_ok THEN "ok" ELSE "err"

\* Backlight::write_raw: "skip" when deduplicated, else the outcome of fs::write
write_raw(last, raw, io_ok) ==
    IF last = Some(raw) THEN "skip"
    ELSE IF io_ok THEN "ok" ELSE "err"

\* Line 371: `?` leaves main when write_raw returned an error
after_write(result) == IF result = "err" THEN "exit" ELSE "loop"

\* An Instant measured from the new origin t
rebase(instant, t) == instant - t

\* The fader with its fade's start_at measured from the new origin t
rebase_fader(fd, t) ==
    IF is_some(fd.fade)
    THEN [fd EXCEPT !.fade = Some([fd.fade[1] EXCEPT !.start_at = rebase(@, t)])]
    ELSE fd

\* A variant of frame_raw that takes the value computed by the iteration before
frame_raw_of_last_value(fd) == f32_to_raw(max_raw, fader.current)

\* Lines 369-370: the raw value of v = fader.value(now), fd being the fader after
\* that call
frame_raw(fd) == f32_to_raw(max_raw, fd.current)

\* Lines 342-370 for a wake at instant t with count events: the dim/undim state
\* machine and the fader.  read is the outcome of read_raw, should it be called.
after_wake(t, count, read) ==
    LET la      == IF is_activity(count) THEN t ELSE last_activity
        restore == should_restore(count, is_dimmed)
        dim     == should_dim(count, is_dimmed, t, la, options.idle_ms)
    IN Let1(value(IF restore
                  THEN set_target(fader, t,
                                  raw_to_f32(max_raw,
                                             restore_raw(saved_raw, initial_raw)),
                                  fade_in, fade_out)
                  ELSE IF dim
                  THEN set_target(fader, t, F32Zero, fade_in, fade_out)
                  ELSE fader,
                  t),
            LAMBDA v :
            [last_activity |-> la,
             saved_raw     |-> IF restore THEN None
                               ELSE IF dim THEN capture(saved_raw, read, initial_raw)
                               ELSE saved_raw,
             is_dimmed     |-> IF restore THEN FALSE ELSE IF dim THEN TRUE
                               ELSE is_dimmed,
             restored      |-> restore,
             fader         |-> v,
             raw           |-> frame_raw(v)])

\* What read_raw can return at line 359: the file's content, or an error
ReadChoices == {Some(brightness), None}

\* The outcomes of read_raw an iteration waking after w ms with count events can
\* see: it calls read_raw only when it dims.
reads(w, count) ==
    IF should_dim(count, is_dimmed, now + w, last_activity, options.idle_ms)
    THEN ReadChoices ELSE {None}

\* The outcomes of fs::write an iteration writing raw can see: write_raw calls
\* fs::write only when raw differs from the last value written.
writes(raw) == IF last_raw_written = Some(raw) THEN {TRUE} ELSE BOOLEAN

\* Lines 294-371: one iteration whose wait returns after w ms with one of the
\* event sets of events.
Iterate(w, events) ==
    \E read \in reads(w, ready_count(CHOOSE e \in events : TRUE)) :
      LET t  == now + w IN
      \E st \in {after_wake(t, ready_count(CHOOSE e \in events : TRUE), read)} :
         \E e \in events, io_ok \in writes(st.raw) :
         LET result == write_raw(last_raw_written, st.raw, io_ok)
         IN /\ timeout' = wait_timeout
            /\ n' = ready_count(e)
            /\ ev' = e
            /\ registered' = {i \in registered : ~deregisters(e[i])}
            /\ last_activity' = rebase(st.last_activity, t)
            /\ saved_raw' = st.saved_raw
            /\ is_dimmed' = st.is_dimmed
            /\ restores' = IF st.restored THEN restores + 1 ELSE restores
            /\ restores' <= MaxRestores
            /\ fader' = rebase_fader(st.fader, t)
            /\ last_raw_written' = IF result = "skip" THEN last_raw_written
                                   ELSE Some(st.raw)
            /\ brightness' = IF result = "ok" THEN st.raw ELSE brightness
            /\ write_result' = result
            /\ pc' = after_write(result)
            /\ UNCHANGED <<options, max_raw, initial_raw, calls>>

\* Timed-out wakes are followed until Horizon ms after the idle deadline.
InHorizon(t) == t <= idle_deadline(last_activity, options.idle_ms) + Horizon

\* ep.wait timed out: no source ready, after the timeout (or a little later).
WakeTimeout ==
    /\ pc = "loop"
    /\ \E w \in {wait_timeout, wait_timeout + Late} :
          /\ InHorizon(now + w)
          /\ Iterate(w, {NoEvents})

\* ep.wait returned ready sources, at some point within the timeout.
WakeReady ==
    /\ pc = "loop"
    /\ \E w \in {x \in {0, Early, wait_timeout} : x <= wait_timeout} :
       \E k \in 1 .. NumSources :
          LET events == {e \in EventChoices : ready_count(e) = k}
          IN events # {} /\ Iterate(w, events)

\* ep.wait returned an error (line 312): main returns it.
WaitFails ==
    /\ pc = "loop"
    /\ timeout' = wait_timeout
    /\ pc' = "exit"
    /\ UNCHANGED <<options, max_raw, initial_raw, last_raw_written, brightness,
                   fader, registered, last_activity, saved_raw, is_dimmed,
                   n, ev, write_result, restores, calls>>

Next == WakeTimeout \/ WakeReady \/ WaitFails

Spec == Init /\ [][Next]_vars

(***************************************************************************)
(* Properties                                                              *)
(***************************************************************************)

\* A step that is one complete loop iteration (the wait did not fail).
IterStep == pc = "loop" /\ ~(pc' = "exit" /\ write_result' # "err")

\* The iteration of this step found no source ready / some source ready.
TimedOutStep == IterStep /\ n' = 0

ActivityStep == IterStep /\ n' > 0

\* The idle deadline has passed at the `now` of the state.
DeadlinePassed == now >= idle_deadline(last_activity, options.idle_ms)

\* The fader's fade was not retargeted by the step: the fade it carries
\* afterwards, if any, is the one it carried before (start_at only moves with
\* the origin of time), and a fader at rest stays as it is.
FadeNotRetargeted ==
    /\ is_some(fader'.fade) =>
          /\ is_some(fader.fade)
          /\ fader'.fade[1].start = fader.fade[1].start
          /\ fader'.fade[1].target = fader.fade[1].target
          /\ fader'.fade[1].duration = fader.fade[1].duration
          /\ fader'.fade[1].start_at <= fader.fade[1].start_at
    /\ ~is_some(fader.fade) => fader' = fader

\* The value the fader is heading for: the target of its fade, or its resting value.
heading_for(fd) == IF is_some(fd.fade) THEN fd.fade[1].target ELSE fd.current

\* C1: with no input activity, a timed-out iteration that finds the idle deadline
\* passed while Active dims and captures saved_raw; every further timed-out
\* iteration, already Dimmed, neither dims again (no new fade is started) nor
\* captures again (saved_raw is left as it is).
C1_DimsOnce ==
    [][TimedOutStep =>
          /\ (~is_dimmed /\ DeadlinePassed') => (is_dimmed' /\ is_some(saved_raw'))
          /\ is_dimmed => (is_dimmed' /\ saved_raw' = saved_raw /\ FadeNotRetargeted)]_vars

\* Several timed-out wakes after the dim: the fade-out has run to its end with
\* the capture of the dim still in place.
C1_Witness ==
    /\ is_dimmed /\ n = 0 /\ pc = "loop"
    /\ saved_raw = Some(initial_raw)
    /\ ~is_some(fader.fade) /\ fader.current = F32Zero
    /\ now >= idle_deadline(last_activity, options.idle_ms) + fade_out

\* C2: activity observed while Dimmed makes the fader head for the normalized
\* saved_raw, clears saved_raw and makes the state Active; a fade that climbs
\* lasts the fade-in duration.
C2_Restore ==
    [][(ActivityStep /\ is_dimmed) =>
          /\ is_some(saved_raw)
          /\ heading_for(fader') = raw_to_f32(max_raw, saved_raw[1])
          /\ saved_raw' = None
          /\ ~is_dimmed'
          /\ last_activity' = now
          /\ (is_some(fader'.fade) /\ F32Lt(fader'.fade[1].start, fader'.fade[1].target))
                => fader'.fade[1].duration = fade_in]_vars

\* Just after a restore from a fade-out that had reached 0: the climb back to
\* the brightness captured at the dim.
C2_Witness ==
    /\ ~is_dimmed /\ n > 0 /\ restores > 0 /\ last_activity = now
    /\ is_some(fader.fade)
    /\ fader.fade[1].start = F32Zero
    /\ fader.fade[1].target = raw_to_f32(max_raw, initial_raw)
    /\ fader.fade[1].start_at = now
    /\ fader.fade[1].duration = fade_in
    /\ saved_raw = None

\* C3: the state becomes Dimmed only in an iteration whose wait returned no
\* ready source and whose `now` is at or past last_activity + idle_ms.
C3_DimOnlyWhenIdle ==
    [][(~is_dimmed /\ is_dimmed') => (TimedOutStep /\ DeadlinePassed')]_vars

\* A wait clamped to u16::MAX ms has timed out before the idle deadline, and the
\* state is still Active.
C3_Witness ==
    /\ timeout = U16_MAX /\ n = 0 /\ pc = "loop"
    /\ options.idle_ms > U16_MAX
    /\ ~DeadlinePassed
    /\ last_activity <= now - U16_MAX
    /\ ~is_dimmed /\ saved_raw = None

\* C5: activity observed while Active only updates last_activity.
C5_ActivityWhileActive ==
    [][(ActivityStep /\ ~is_dimmed) =>
          /\ last_activity' = now
          /\ ~is_dimmed'
          /\ saved_raw' = saved_raw
          /\ FadeNotRetargeted]_vars

\* Activity arrived while Active in the middle of a fade-in, which goes on.
C5_Witness ==
    /\ ~is_dimmed /\ n > 0 /\ last_activity = now
    /\ is_some(fader.fade)
    /\ fader.fade[1].start_at < now
    /\ fader.fade[1].duration = fade_in

\* C6: a wake in which every ready source reported a hangup or an error (none
\* was drained) deregisters those sources, leaves last_activity in the past and
\* does not restore from Dimmed.
C6_HangupIsNotActivity ==
    [][(ActivityStep /\ \A i \in Sources : ev'[i] \in {"none", "hup"}) =>
          /\ \A i \in Sources : ev'[i] = "hup" => i \notin registered'
          /\ is_dimmed => is_dimmed'
          /\ last_activity < now => last_activity' < now]_vars

C8_WriteFailureTerminates ==
    /\ [](write_result = "err" => pc = "exit")
    /\ [][pc # "exit"]_vars

C8_Witness == write_result = "err" /\ pc = "exit" /\ brightness # last_raw_written[1]

\* The iteration of this step called fs::write on the brightness file.
PhysicalWrite == IterStep /\ write_result' # "skip"

\* C13: an iteration writes the brightness file only with a raw value other than
\* the one of the latest write of this process, so no two consecutive writes
\* carry the same value; and an iteration that finds the fader at rest and
\* leaves it there, the value having been written before, does not write.
C13_WriteOnlyOnChange ==
    [][/\ PhysicalWrite => /\ last_raw_written # last_raw_written'
                           /\ write_result' = "ok" => brightness' = last_raw_written'[1]
       /\ (IterStep /\ write_result' = "skip") => brightness' = brightness
       /\ (IterStep /\ is_some(last_raw_written) /\ ~is_fading(fader) /\ fader' = fader)
             => write_result' = "skip"]_vars

\* An iteration found the fader at rest at 0 after the fade-out, raw 0 written
\* before, and wrote nothing.
C13_Witness ==
    /\ pc = "loop" /\ write_result = "skip" /\ n = 0
    /\ is_dimmed /\ ~is_fading(fader) /\ fader.current = F32Zero
    /\ last_raw_written = Some(0) /\ brightness = 0
    /\ timeout = DIMMED_WAKE_MS

\* C14: whenever a fade is active at the start of an iteration, the timeout the
\* iteration gives to the readiness wait is at most the animation tick of 16 ms,
\* whatever idle_ms and the fade durations are.
C14_TickBoundsWaitWhileFading ==
    [][(pc = "loop" /\ is_fading(fader)) => timeout' <= MIN_FADE_TICK_MS]_vars

\* With an idle time of 70 s, the iteration after a restore waited for the tick
\* of the fade-in, timed out, and found the fade finished.
C14_Witness ==
    /\ pc = "loop" /\ timeout = MIN_FADE_TICK_MS /\ n = 0
    /\ options.idle_ms > U16_MAX
    /\ ~is_dimmed /\ restores > 0
    /\ ~is_fading(fader)
    /\ last_activity = now - MIN_FADE_TICK_MS

\* C15: every iteration that does not fail makes one write_raw call, whose
\* argument is to_raw of the fade value evaluated at the now the iteration took
\* after its wait and after its dim/undim transition: the value recorded as
\* written, and found in the file after a write, is the raw value of the fader
\* as the iteration leaves it, which is the fader evaluated at now and, after a
\* transition, the fader heading for the new target.
C15_OneWritePerIteration ==
    [][(IterStep /\ write_result' # "err") =>
          /\ write_result' \in {"skip", "ok"}
          /\ last_raw_written' = Some(f32_to_raw(max_raw, fader'.current))
          /\ write_result' = "ok" => brightness' = f32_to_raw(max_raw, fader'.current)
          /\ write_result' = "skip" => last_raw_written' = last_raw_written
          /\ fader'.current = value(fader', now).current
          /\ (~is_dimmed /\ is_dimmed') => heading_for(fader') = F32Zero
          /\ (is_dimmed /\ ~is_dimmed')
                => heading_for(fader') = raw_to_f32(max_raw, restore_raw(saved_raw, initial_raw))]_vars

\* An iteration in the middle of a fade wrote the raw value of the fade at its
\* now, which is neither that of the start nor that of the target of the fade.
C15_Witness ==
    /\ pc = "loop" /\ write_result = "ok"
    /\ is_fading(fader) /\ fader.fade[1].start_at < now
    /\ brightness = f32_to_raw(max_raw, fader.current)
    /\ brightness # f32_to_raw(max_raw, fader.fade[1].start)
    /\ brightness # f32_to_raw(max_raw, fader.fade[1].target)
    /\ last_raw_written = Some(brightness)

\* The time from now to the deadline the iteration starting in this state
\* computes; negative when the deadline is past.
until_deadline ==
    next_wake(fader, is_dimmed, last_activity, options.idle_ms, now) - now

C17_NoBusyPollInFadeOut ==
    [][(pc = "loop" /\ is_dimmed /\ is_fading(fader)) => timeout' > 0]_vars

\* C18: this process being the only writer of the brightness file, every
\* Dimmed -> Active transition makes the fader head for the normalized initial
\* raw brightness, so dim/restore cycles never lower the level restored, also
\* when a dim begins while a fade-in is in progress.
C18_RestoreLevelKept ==
    [][(IterStep /\ is_dimmed /\ ~is_dimmed')
          => heading_for(fader') = raw_to_f32(max_raw, initial_raw)]_vars

\* C19: at every iteration boundary saved_raw is populated if and only if
\* is_dimmed is true: it is set, having been empty, at each Active -> Dimmed
\* transition and cleared at each Dimmed -> Active transition.
C19_SavedIffDimmed ==
    /\ [](is_some(saved_raw) <=> is_dimmed)
    /\ [][/\ (~is_dimmed /\ is_dimmed') => (saved_raw = None /\ is_some(saved_raw'))
          /\ (is_dimmed /\ ~is_dimmed') => (is_some(saved_raw) /\ saved_raw' = None)
          /\ (is_dimmed' <=> is_dimmed) => saved_raw' = saved_raw]_vars

\* The second dim episode: saved_raw, cleared by the restore before, is
\* populated again.
C19_Witness ==
    /\ pc = "loop" /\ is_dimmed /\ is_some(saved_raw) /\ restores > 0 /\ n = 0

\* C20: last_raw_written is set only after a successful write: an iteration
\* whose write of raw value v fails leaves last_raw_written at its previous
\* value, not recording v.
C20_RecordedOnlyAfterSuccess ==
    [][(IterStep /\ write_result' = "err") => last_raw_written' = last_raw_written]_vars

(***************************************************************************)
(* The loop when no input ever arrives                                     *)
(***************************************************************************)

\* The scenario of the specification, next to the configurations of Configs
IdleConfigs ==
    Configs \cup
    { [idle_ms |-> 1000, fade_in_ms |-> 250, fade_out_ms |-> 500,
       max_raw |-> 255, initial_raw |-> 128, files |-> 1] }

InitIdle == \E c \in IdleConfigs : InitOf(c)

\* An iteration whose wait timed out and whose brightness write did not fail
IdleWake == WakeTimeout /\ write_result' # "err"

\* An idle iteration before which time has passed.  A wait with timeout 0
\* returns at once, but the clock does not stand still for ever.
IdleTick == IdleWake /\ last_activity' < last_activity

SpecIdle == InitIdle /\ [][IdleWake]_vars /\ WF_vars(IdleTick)

\* The brightness is off: the fader rests at exactly 0 and raw 0 is in the file.
DimmedOff ==
    /\ is_dimmed
    /\ ~is_fading(fader) /\ fader.current = F32Zero
    /\ brightness = 0

\* The fade-out is in flight: heading for 0, started less than fade_out ago.
DimmedFading ==
    /\ is_dimmed
    /\ is_fading(fader)
    /\ fader.fade[1].target = F32Zero
    /\ fader.fade[1].duration = fade_out
    /\ saturating_duration_since(now, fader.fade[1].start_at) < fade_out

\* C4: if no input ever arrives the loop eventually dims; while Dimmed, either
\* the fade-out to 0 is younger than fade_out, or the value is exactly 0, raw 0
\* is written and no fade is active; and the latter is reached and kept.
C4_IdleFadesToZero ==
    /\ <>is_dimmed
    /\ [](is_dimmed => (DimmedFading \/ DimmedOff))
    /\ [](~is_dimmed => ~DeadlinePassed)
    /\ <>[]DimmedOff

\* The scenario of the specification after its fade-out: off, having started
\* from raw 128 of 255, idle for at least 1000 + 500 ms.
C4_Witness ==
    /\ DimmedOff
    /\ options.idle_ms = 1000 /\ options.fade_out_ms = 500
    /\ saved_raw = Some(128) /\ last_raw_written = Some(0)
    /\ last_activity <= now - 1500

(***************************************************************************)
(* The Fader exercised on its own                                          *)
(***************************************************************************)

MaxCalls == 2

MaxTicks == 2

\* Two backlights: one of 255 steps with a fade-in of 40000 s, at the end of
\* which a Duration one millisecond short of it has the same as_secs_f32; one
\* of 20000 steps, whose neighbouring raw values are closer than the epsilon.
FadeConfigs ==
    { [idle_ms |-> 5, fade_in_ms |-> 40000000, fade_out_ms |-> 2,
       max_raw |-> 255, initial_raw |-> 65, files |-> 1],
      [idle_ms |-> 5, fade_in_ms |-> 10, fade_out_ms |-> 2,
       max_raw |-> 20000, initial_raw |-> 10000, files |-> 1] }

\* The raw values whose normalisation set_target is called with
TargetRaws == {r \in {0, 194, 10001} : r <= max_raw}

InitFade == \E c \in FadeConfigs : InitOf(c)

\* The time the fade in flight has been running, and has left to run
elapsed(fd) == saturating_duration_since(now, fd.fade[1].start_at)

remaining(fd) == fd.fade[1].duration - elapsed(fd)

\* fader.set_target(now, raw_to_f32(raw)), no time having passed since the last call
FadeSetTarget ==
    /\ Len(calls) < MaxCalls
    /\ \E raw \in TargetRaws :
          /\ fader' = set_target(fader, now, raw_to_f32(max_raw, raw), fade_in, fade_out)
          /\ calls' = Append(calls, [target |-> raw_to_f32(max_raw, raw), before |-> fader])
    /\ UNCHANGED <<options, max_raw, initial_raw, last_raw_written, brightness,
                   registered, last_activity, saved_raw, is_dimmed, timeout, n, ev,
                   write_result, pc, restores>>

\* fader.value(now) after w ms: a millisecond later, a millisecond before the
\* end of the fade, or at its end
FadeValue ==
    /\ is_fading(fader)
    /\ \E w \in {x \in {1} : elapsed(fader) < MaxTicks}
                 \cup {x \in {remaining(fader) - 1, remaining(fader)} : x >= 1} :
          fader' = rebase_fader(value(fader, now + w), w)
    /\ UNCHANGED <<options, max_raw, initial_raw, last_raw_written, brightness,
                   registered, last_activity, saved_raw, is_dimmed, timeout, n, ev,
                   write_result, pc, restores, calls>>

\* fader.set_target(now, raw_to_f32(raw)) w ms after the last call, the fade in
\* flight not having been evaluated in between: a millisecond later, or at the
\* end of the fade.  The call is recorded with the fader as it was at that now.
FadeRetarget ==
    /\ Len(calls) < MaxCalls
    /\ is_fading(fader)
    /\ \E raw \in TargetRaws, w \in {1, remaining(fader)} :
          /\ w >= 1
          /\ fader' = rebase_fader(set_target(fader, now + w, raw_to_f32(max_raw, raw),
                                              fade_in, fade_out), w)
          /\ calls' = Append(calls, [target |-> raw_to_f32(max_raw, raw),
                                     before |-> rebase_fader(fader, w)])
    /\ UNCHANGED <<options, max_raw, initial_raw, last_raw_written, brightness,
                   registered, last_activity, saved_raw, is_dimmed, timeout, n, ev,
                   write_result, pc, restores>>

NextFade == FadeSetTarget \/ FadeValue \/ FadeRetarget

SpecFade == InitFade /\ [][NextFade]_vars

\* x is not on the start side of y, for a fade from start to target
not_before(fade, x, y) ==
    IF F32Le(fade.start, fade.target) THEN F32Le(y, x) ELSE F32Le(x, y)

\* C9: every fade set_target creates has value start at its start time and value
\* target, the fade being cleared, at start time + duration; between the two a
\* later value is never on the start side of an earlier one.
C9_FadeEndpointsAndMonotonic ==
    /\ [](is_fading(fader) =>
             /\ value(fader, fader.fade[1].start_at).current = fader.fade[1].start
             /\ value(fader, fader.fade[1].start_at + fader.fade[1].duration)
                   = [current |-> fader.fade[1].target, fade |-> None])
    /\ [][(is_fading(fader) /\ calls' = calls)
             => not_before(fader.fade[1], fader'.current, fader.current)]_vars

\* C10: set_target(now, t) with t within epsilon of the value the fader resolves
\* to at now leaves no fade active and current equal to t, also when the call
\* before it has just started a fade.
C10_SnapWithinEpsilon ==
    [][(calls' # calls
          /\ within_epsilon(calls'[Len(calls')].target,
                            value(calls'[Len(calls')].before, now).current))
         => fader' = [current |-> calls'[Len(calls')].target, fade |-> None]]_vars

\* The latest call found a fade started at that very instant, had a target other
\* than, but within epsilon of, the value resolved, and ended the fade there.
C10_Witness ==
    /\ calls # <<>>
    /\ LET c == calls[Len(calls)]
       IN /\ is_fading(c.before)
          /\ c.before.fade[1].start_at = now
          /\ c.target # c.before.current
          /\ c.target # c.before.fade[1].target
          /\ within_epsilon(c.target, c.before.current)
          /\ fader = [current |-> c.target, fade |-> None]

\* C12: set_target(now, t) with t not within epsilon of the value the fader
\* resolves to at now starts a fade whose start is exactly that value (current is
\* that value too: no jump), whose start time is now, and whose duration is
\* fade_in when t is greater than that value and fade_out when it is lesser.
C12_NewFadeFromResolvedValue ==
    [][calls' # calls =>
          LET c   == calls'[Len(calls')]
              cur == value(c.before, now).current
          IN ~within_epsilon(c.target, cur) =>
                /\ fader'.current = cur
                /\ fader'.fade = Some([start    |-> cur,
                                       target   |-> c.target,
                                       start_at |-> now,
                                       duration |-> IF F32Lt(cur, c.target)
                                                    THEN fade_in ELSE fade_out])
                /\ value(fader', now).current = cur]_vars

\* A fade in flight, last evaluated before now, has just been retargeted: the
\* new fade starts at now from the value resolved at now, not from the value
\* last computed, and dims with the fade-out duration.
C12_Witness ==
    /\ calls # <<>>
    /\ LET c == calls[Len(calls)]
       IN /\ is_fading(c.before)
          /\ c.before.fade[1].start_at < now
          /\ ~done(c.before.fade[1], now)
          /\ value(c.before, now).current # c.before.current
          /\ is_fading(fader)
          /\ fader.fade[1].start_at = now
          /\ fader.fade[1].start = value(c.before, now).current
          /\ fader.fade[1].target = c.target
          /\ F32Lt(c.target, fader.fade[1].start)
          /\ fader.fade[1].duration = fade_out

(***************************************************************************)
(* The raw encoding exercised on its own                                   *)
(***************************************************************************)

RawSpan == 130

\* max_brightness values: small ones, and the first ones a f32 cannot tell apart
RawMaxes == {1, 3, 255, 1000, 16777216, 16777218}

\* Backlights with a raw brightness among the RawSpan lowest or highest
RawConfigs ==
    { [idle_ms |-> 5, fade_in_ms |-> 10, fade_out_ms |-> 2,
       max_raw |-> m, initial_raw |-> r, files |-> 1] :
         m \in RawMaxes,
         r \in (0 .. RawSpan) \cup ((16777218 - RawSpan) .. 16777218) }

InitRaw == \E c \in {x \in RawConfigs : x.initial_raw <= x.max_raw} : InitOf(c)

\* Lines 369-371 for the fader at rest at raw_to_f32(initial_raw): the first
\* write_raw(f32_to_raw(v)) of the loop, fs::write succeeding
RawWrite ==
    /\ last_raw_written = None
    /\ \E raw \in {f32_to_raw(max_raw, value(fader, now).current)} :
          /\ last_raw_written' = Some(raw)
          /\ brightness' = raw
          /\ write_result' = write_raw(last_raw_written, raw, TRUE)
    /\ UNCHANGED <<options, max_raw, initial_raw, fader, registered, last_activity,
                   saved_raw, is_dimmed, timeout, n, ev, pc, restores, calls>>

SpecRaw == InitRaw /\ [][RawWrite]_vars

\* C11: for every max_raw and every raw value r in 0..max_raw,
\* to_raw(to_normalized(r)) = r: the raw value written for a fader resting at the
\* normalisation of the raw value read is that raw value.
C11_RawRoundTrip ==
    is_some(last_raw_written) => last_raw_written[1] = initial_raw

====
